---- MODULE Spec2Model ----
(***************************************************************************)
(* Model of the Telegram question-answering bot of src/main.py.            *)
(*                                                                         *)
(* Text is modelled as a sequence of one-character strings, so that the    *)
(* string operations of the handlers (strip, lower, split, join, len) are  *)
(* computed as Python computes them.                                       *)
(*                                                                         *)
(* Environment: the Telegram transport rejects an inline keyboard whose    *)
(* callback_data is longer than 64 bytes of UTF-8, and a reply_text that   *)
(* carries a keyboard may fail on the way; edits of the placeholder are    *)
(* delivered.  The library calls retrieve, postprocess_nodes and acomplete *)
(* may raise.  The application is built with the default dispatcher, which *)
(* processes updates one at a time.                                        *)
(*                                                                         *)
(* build_index.py and the bot are separate processes that share storage/;  *)
(* nothing coordinates them, so the statements of build_one interleave     *)
(* with the loop of load_retrievers.                                       *)
(***************************************************************************)
EXTENDS Integers, Sequences, FiniteSets, TLC

(* ---------------------------------------------------------------------- *)
(* Bounds of the model                                                     *)
(* ---------------------------------------------------------------------- *)
MaxLog == 1
MaxLogConcurrent == 3
MaxNodes == 6

Users == {1, 2}

(* ---------------------------------------------------------------------- *)
(* Python string operations on character sequences                         *)
(* ---------------------------------------------------------------------- *)
(* A character is a one-character string.  The alphabet is ASCII, Latin-1
   and the code points named below; a character that a string of this
   language cannot hold is written by its code point, "U+212A". *)

(* the characters str.strip() removes: those for which str.isspace() holds *)
Whitespace == {"\t", "\n", "", "\f", "\r", "", "", "", "", " ", "",
               " ", "U+1680", "U+2000", "U+2001", "U+2002", "U+2003",
               "U+2004", "U+2005", "U+2006", "U+2007", "U+2008", "U+2009",
               "U+200A", "U+2028", "U+2029", "U+202F", "U+205F", "U+3000"}

(* the cased letters of the alphabet whose lower() is one character *)
UpperLetters == <<"A", "B", "C", "D", "E", "F", "G", "H", "I", "J", "K",
                  "L", "M", "N", "O", "P", "Q", "R", "S", "T", "U", "V",
                  "W", "X", "Y", "Z", "À", "Á", "Â", "Ã", "Ä", "Å", "Æ",
                  "Ç", "È", "É", "Ê", "Ë", "Ì", "Í", "Î", "Ï", "Ð", "Ñ",
                  "Ò", "Ó", "Ô", "Õ", "Ö", "Ø", "Ù", "Ú", "Û", "Ü", "Ý",
                  "Þ">>
LowerLetters == <<"a", "b", "c", "d", "e", "f", "g", "h", "i", "j", "k",
                  "l", "m", "n", "o", "p", "q", "r", "s", "t", "u", "v",
                  "w", "x", "y", "z", "à", "á", "â", "ã", "ä", "å", "æ",
                  "ç", "è", "é", "ê", "ë", "ì", "í", "î", "ï", "ð", "ñ",
                  "ò", "ó", "ô", "õ", "ö", "ø", "ù", "ú", "û", "ü", "ý",
                  "þ">>

(* ch.lower() of a character whose lower() is one character *)
LowerTable == [c \in {UpperLetters[i] : i \in 1..Len(UpperLetters)} |->
                 LowerLetters[CHOOSE i \in 1..Len(UpperLetters) : UpperLetters[i] = c]]

LowerChar(c) ==
  IF c \in DOMAIN LowerTable THEN LowerTable[c]
  ELSE IF c = "U+212A" THEN "k"
  ELSE IF c = "U+212B" THEN "å"
  ELSE c

RECURSIVE Flatten(_)
Flatten(ss) == IF ss = <<>> THEN <<>> ELSE ss[1] \o Flatten(Tail(ss))

(* s.lower(); U+0130 lowers to "i" followed by U+0307 *)
lower(s) ==
  Flatten([i \in 1..Len(s) |->
             IF s[i] = "U+0130" THEN <<"i", "U+0307">> ELSE <<LowerChar(s[i])>>])

(* the characters of U+0080..U+00FF, and the named code points, by the
   number of bytes of their UTF-8 encoding *)
Latin1Supplement == {"", "", "", "", "", "", "", "", "", "", "",
                     "", "", "", "", "", "", "", "", "", "", "",
                     "", "", "", "", "", "", "", "", "", "", " ",
                     "¡", "¢", "£", "¤", "¥", "¦", "§", "¨", "©", "ª", "«",
                     "¬", "­", "®", "¯", "°", "±", "²", "³", "´", "µ", "¶",
                     "·", "¸", "¹", "º", "»", "¼", "½", "¾", "¿", "À", "Á",
                     "Â", "Ã", "Ä", "Å", "Æ", "Ç", "È", "É", "Ê", "Ë", "Ì",
                     "Í", "Î", "Ï", "Ð", "Ñ", "Ò", "Ó", "Ô", "Õ", "Ö", "×",
                     "Ø", "Ù", "Ú", "Û", "Ü", "Ý", "Þ", "ß", "à", "á", "â",
                     "ã", "ä", "å", "æ", "ç", "è", "é", "ê", "ë", "ì", "í",
                     "î", "ï", "ð", "ñ", "ò", "ó", "ô", "õ", "ö", "÷", "ø",
                     "ù", "ú", "û", "ü", "ý", "þ", "ÿ"}
TwoByteNamed == {"U+0130", "U+0307"}
ThreeByteNamed == {"U+1680", "U+2000", "U+2001", "U+2002", "U+2003",
                   "U+2004", "U+2005", "U+2006", "U+2007", "U+2008",
                   "U+2009", "U+200A", "U+2028", "U+2029", "U+202F",
                   "U+205F", "U+212A", "U+212B", "U+3000"}

(* len(s.encode("utf-8")) *)
utf8_len(s) ==
  Len(s) + Cardinality({i \in 1..Len(s) : s[i] \in Latin1Supplement \cup TwoByteNamed})
         + 2 * Cardinality({i \in 1..Len(s) : s[i] \in ThreeByteNamed})

RECURSIVE lstrip(_)
lstrip(s) == IF s # <<>> /\ s[1] \in Whitespace THEN lstrip(Tail(s)) ELSE s

RECURSIVE rstrip(_)
rstrip(s) ==
  IF s # <<>> /\ s[Len(s)] \in Whitespace THEN rstrip(SubSeq(s, 1, Len(s) - 1)) ELSE s

strip(s) == rstrip(lstrip(s))

Contains(s, c) == \E i \in 1..Len(s) : s[i] = c

IndexOf(s, c) == IF Contains(s, c) THEN CHOOSE i \in 1..Len(s) : s[i] = c /\ \A j \in 1..(i - 1) : s[j] # c ELSE 0

(* s.split(c, maxsplit) for a one-character separator *)
RECURSIVE split(_, _, _)
split(s, c, maxsplit) ==
  IF maxsplit = 0 \/ ~Contains(s, c) THEN <<s>>
  ELSE LET i == IndexOf(s, c)
       IN  <<SubSeq(s, 1, i - 1)>> \o split(SubSeq(s, i + 1, Len(s)), c, maxsplit - 1)

(* sep.join(parts) *)
RECURSIVE join(_, _)
join(sep, parts) ==
  IF parts = <<>> THEN <<>>
  ELSE IF Len(parts) = 1 THEN parts[1]
  ELSE parts[1] \o sep \o join(sep, Tail(parts))

(* seq[:n] *)
Take(s, n) == SubSeq(s, 1, IF Len(s) < n THEN Len(s) ELSE n)


Range(s) == {s[i] : i \in 1..Len(s)}

(* ---------------------------------------------------------------------- *)
(* Categories and aliases                                                  *)
(* ---------------------------------------------------------------------- *)
character == <<"c","h","a","r","a","c","t","e","r">>
factions  == <<"f","a","c","t","i","o","n","s">>
items     == <<"i","t","e","m","s">>
maps      == <<"m","a","p","s">>
npc       == <<"n","p","c">>
timeline  == <<"t","i","m","e","l","i","n","e">>
all       == <<"a","l","l">>

CATEGORIES == <<character, factions, items, maps, npc, timeline>>

(* Python None, and a key that is absent from user_data *)
None  == <<"<None>">>
Unset == <<"<unset>">>

ALIASES == <<
  [cat |-> character, keys |-> << character, <<"k","a","r","a","k","t","e","r">> >>],
  [cat |-> factions,  keys |-> << <<"f","a","c","t","i","o","n">>, factions, <<"t","i","m">>,
                                  <<"t","e","a","m">>, <<"f","a","k","s","i">> >>],
  [cat |-> items,     keys |-> << <<"i","t","e","m">>, items, <<"a","r","t","e","f","a","k">>,
                                  <<"a","r","t","i","f","a","c","t">>, <<"b","a","r","a","n","g">> >>],
  [cat |-> maps,      keys |-> << maps, <<"m","a","p">>, <<"p","e","t","a">>,
                                  <<"l","o","k","a","s","i">>, <<"a","r","e","a">> >>],
  [cat |-> npc,       keys |-> << npc >>],
  [cat |-> timeline,  keys |-> << timeline, <<"l","i","n","i","m","a","s","a">>,
                                  <<"a","l","u","r">>, <<"s","e","j","a","r","a","h">> >>]
>>

(* the loop "for cat, keys in ALIASES.items(): if prefix in keys: return cat" *)
RECURSIVE alias_lookup(_, _)
alias_lookup(i, prefix) ==
  IF i > Len(ALIASES) THEN None
  ELSE IF prefix \in Range(ALIASES[i].keys) THEN ALIASES[i].cat
  ELSE alias_lookup(i + 1, prefix)

detect_category_case_sensitive(text) ==
  LET raw == strip(text)
  IN  IF Contains(raw, ":")
      THEN LET parts  == split(raw, ":", 1)
               cat    == alias_lookup(1, strip(parts[1]))
           IN  IF cat # None THEN [cat |-> cat, q |-> strip(parts[2])]
               ELSE [cat |-> None, q |-> raw]
      ELSE [cat |-> None, q |-> raw]

detect_category_and_query(text) ==
  LET raw == strip(text)
  IN  IF Contains(raw, ":")
      THEN LET parts  == split(raw, ":", 1)
               prefix == strip(lower(parts[1]))
               rest   == strip(parts[2])
               cat    == alias_lookup(1, prefix)
           IN  IF cat # None THEN [cat |-> cat, q |-> rest]
               ELSE [cat |-> None, q |-> raw]
      ELSE [cat |-> None, q |-> raw]

(* collect_sources: node metadata is (file_name, filename, id); "" is an     *)
(* absent key.                                                             *)
Node(text, file_name) == [text |-> text, file_name |-> file_name, filename |-> "", id |-> ""]

max_files == 5

RECURSIVE collect_files_late_stop(_, _, _)
collect_files_late_stop(nodes, files, limit) ==
  IF nodes = <<>> THEN files
  ELSE LET n      == nodes[1]
           fname  == IF n.file_name # "" THEN n.file_name
                     ELSE IF n.filename # "" THEN n.filename ELSE n.id
           files2 == IF fname # "" /\ fname \notin Range(files) THEN Append(files, fname) ELSE files
       IN  IF Len(files2) > limit THEN files2
           ELSE collect_files_late_stop(Tail(nodes), files2, limit)

RECURSIVE collect_files(_, _, _)
collect_files(nodes, files, limit) ==
  IF nodes = <<>> THEN files
  ELSE LET n      == nodes[1]
           fname  == IF n.file_name # "" THEN n.file_name
                     ELSE IF n.filename # "" THEN n.filename ELSE n.id
           files2 == IF fname # "" /\ fname \notin Range(files) THEN Append(files, fname) ELSE files
       IN  IF Len(files2) >= limit THEN files2
           ELSE collect_files(Tail(nodes), files2, limit)

collect_sources_by_id(nodes) ==
  LET files == collect_files([i \in 1..Len(nodes) |->
                                [nodes[i] EXCEPT !.file_name = "", !.filename = ""]],
                             <<>>, max_files)
  IN  IF files # <<>> THEN files ELSE <<"dataset">>

collect_sources(nodes) ==
  LET files == collect_files(nodes, <<>>, max_files)
  IN  IF files # <<>> THEN files ELSE <<"dataset">>

(* ---------------------------------------------------------------------- *)
(* Library components: retrievers, reranker, language model                *)
(* ---------------------------------------------------------------------- *)
similarity_top_k == 8
rerank_top_n == 8
MaxContextChunks == 12

Digits == <<"1","2","3","4","5","6","7","8">>

(* m1.md repeats one paragraph, so its chunks are equal; data/npc holds a
   copy of m1.md beside n2.md *)
MapsChunks == [i \in 1..similarity_top_k |-> Node(<<"m", "1">>, "m1.md")]
NpcChunks  == [i \in 1..5 |->
                 IF i <= 4 THEN Node(<<"m", "1">>, "m1.md") ELSE Node(<<"n", "2">>, "n2.md")]
Blank1 == Node(<<"\r", "\n">>, "b.md")
Blank2 == Node(<<>>, "b.md")

(* queries for which the npc index has nothing but the blank chunks of b.md *)
BlankQueries == {<<"x", ":", "y">>, <<"T", "i", "m", ":", "a", ":", "b">>}

(* results a category's retriever can return for query q (at most top-k) *)
RetrieveResults(cat, q) ==
  IF cat = maps THEN (IF q \in BlankQueries THEN {<<>>} ELSE {<<>>, MapsChunks})
  ELSE IF cat = npc
       THEN (IF q \in BlankQueries THEN {<<Blank1>>, <<Blank1, Blank2>>} ELSE {NpcChunks})
  ELSE {<<>>, <<Node(<<"x">>, "x.md")>>}

AllRetrieveResults(q) == UNION {RetrieveResults(CATEGORIES[i], q) : i \in 1..Len(CATEGORIES)}

(* the sequence without its i-th element *)
RemoveAt(seq, i) == SubSeq(seq, 1, i - 1) \o SubSeq(seq, i + 1, Len(seq))

(* the orders a cross-encoder can rank the chunks in: every permutation
   (equal chunks exchanged give the same order) *)
RECURSIVE RerankOrders(_)
RerankOrders(nodes) ==
  IF nodes = <<>> THEN {<<>>}
  ELSE UNION {{<<nodes[i]>> \o o : o \in RerankOrders(RemoveAt(nodes, i))} :
                i \in {j \in 1..Len(nodes) : \A k \in 1..(j - 1) : nodes[k] # nodes[j]}}

(* the results of a successful reranker.postprocess_nodes: the top_n chunks
   of an order *)
Reranked(nodes) == {Take(o, rerank_top_n) : o \in RerankOrders(nodes)}

(* resp.text of a successful completion *)
LlmResponses == {<<" ", "o", "k", "\n">>}

(* persisted index directories found under storage/ at startup *)
StorageLayouts == {{}, {maps, npc}}

(* ---------------------------------------------------------------------- *)
(* Texts the handlers send                                                 *)
(* ---------------------------------------------------------------------- *)
Msg(kind, arg) == [kind |-> kind, arg |-> arg]

NoMsg           == Msg("none", <<>>)
MsgLoading      == Msg("loading", <<>>)
MsgMenu         == Msg("menu", <<>>)
MsgReset        == Msg("reset", <<>>)
MsgUnknown      == Msg("unknown_choice", <<>>)
MsgModeAll      == Msg("mode_all", <<>>)
MsgMode(cat)    == Msg("mode", cat)
MsgNotIndexedPick(cat) == Msg("not_indexed_pick", cat)
MsgNotIndexed(cat)     == Msg("not_indexed", cat)
MsgNotFound     == Msg("not_found", <<>>)
MsgAnswer(answer, source_note, mode_note) == Msg("answer", <<answer, source_note, mode_note>>)
MsgError(e)     == Msg("error", <<e>>)
MsgPickNew      == Msg("pick_new", <<>>)
MsgTips         == Msg("tips", <<>>)
MsgFbInvalid    == Msg("fb_invalid", <<>>)
MsgFbThanks(score) == Msg("fb_thanks", score)

(* ---------------------------------------------------------------------- *)
(* Inputs                                                                  *)
(* ---------------------------------------------------------------------- *)
(* 59 characters, 60 bytes *)
LongQuestion == [i \in 1..58 |-> "z"] \o <<"é">>

Questions == {
  <<"a", "|", "b">>,
  <<"m", "a", "p", ":", "x">>,
  <<"\r", "M", "A", "P", "\f", ":", " ", "x", "\n">>,
  <<"n", "p", "c", ":">>,
  <<"x", ":", "y">>,
  <<"T", "i", "m", ":", "a", ":", "b">>,
  LongQuestion }

CAT  == <<"C", "A", "T">>
NEXT == <<"N", "E", "X", "T">>
fb   == <<"f", "b">>

CatPayloads == {CAT \o <<"|">> \o CATEGORIES[i] : i \in 1..Len(CATEGORIES)} \cup {CAT \o <<"|">> \o all}

NextPayloads == {NEXT \o <<"|", "a", "g", "a", "i", "n">>, NEXT \o <<"|", "d", "o", "n", "e">>}

(* f"fb|{score}|{q_raw}" *)
fb_payload(score, q_raw) == fb \o <<"|">> \o score \o <<"|">> \o q_raw

(* callback data matching ^fb\| : buttons the bot sends, and data no button carries *)
FbPayloads == {
  fb_payload(<<"4">>, <<"w", "h", "o">>),
  fb_payload(<<"9">>, <<"x">>),
  fb \o <<"|", "4">> }

(* the same, and a button of a question that holds the separator *)
FbPayloadsConcurrent == FbPayloads \cup {fb_payload(<<"1">>, <<"a", "|", "b">>)}

(* Telegram Bot API: InlineKeyboardButton.callback_data is 1-64 bytes *)
MaxCallbackData == 64

username(u) == IF u = 1 THEN <<"a", "n", "n">> ELSE None

(* ApplicationBuilder().token(BOT_TOKEN).build(): updates are processed one by one *)
concurrent_updates == FALSE

(* ---------------------------------------------------------------------- *)
(* State                                                                   *)
(* ---------------------------------------------------------------------- *)
VARIABLES
  storage_root,  \* TRUE iff the directory storage/ exists
  storage,       \* per category: the persisted index directory storage/<category>
  data_dir,      \* per category: the *.md files of data/<category>
  build_pc,      \* build_index.py: 0 not running, i the category of the loop's turn
  build_one_pc,  \* build_one: the statement it is at, and its md_files
  server,        \* the bot process: "down", "loading", "running" or "fatal"
  load_pc,       \* load_retrievers: the category of the loop's turn, and the statement
  retrievers,    \* keys of the retriever dict built by load_retrievers
  reranker,      \* TRUE iff the optional reranker was constructed at import
  user_data,     \* per user: context.user_data["selected_cat"]
  feedback_log,  \* lines of feedback_log.csv
  hs             \* per user: the handler invocation in progress or last finished

vars == <<storage_root, storage, data_dir, build_pc, build_one_pc, server, load_pc,
          retrievers, reranker, user_data, feedback_log, hs>>

Idle == [kind |-> "idle", pc |-> "idle", data |-> <<>>, cat |-> None, q |-> <<>>,
         retrieved |-> <<>>, reranked |-> <<>>, nodes |-> <<>>, rerank |-> "none",
         context_text |-> <<>>,
         source_note |-> <<>>, text |-> NoMsg, retrieve_calls |-> 0, llm_calls |-> 0,
         llm |-> "none", fb_kb |-> <<>>, next_kb |-> FALSE]

Header == [kind |-> "header", user_id |-> 0, username |-> <<>>, score |-> <<>>,
           question |-> <<>>, timestamp |-> "timestamp"]

DataRows(log) == SelectSeq(log, LAMBDA l : l.kind = "row")

Running(u) == hs[u].pc \notin {"idle", "done"}

CategorySet == Range(CATEGORIES)

(* a markdown file: its name and the number of chunks the splitter makes of it *)
Doc(name, chunks) == [name |-> name, chunks |-> chunks]

(* contents a source directory can have *)
SourceSamples == {{}, {Doc(1, 2)}, {Doc(1, 1), Doc(2, 2)}}

(* directories whose sources change between builds *)
EditedCategories == {maps, npc}

(* storage/<category> is absent; when it exists it is complete once persist
   has written all its files *)
NoIndex == [exists |-> FALSE, complete |-> FALSE, chunks |-> <<>>]

NotLoading == [i |-> 0, at |-> "exists"]

NotBuilding == [at |-> "glob", md_files |-> <<>>]

(* sorted(str(p) for p in src_dir.glob("*.md")) *)
RECURSIVE sorted(_)
sorted(docs) ==
  IF docs = {} THEN <<>>
  ELSE LET first == CHOOSE d \in docs : \A e \in docs : d.name <= e.name
       IN  <<first>> \o sorted(docs \ {first})

(* load_data, get_nodes_from_documents, VectorStoreIndex(nodes) *)
index_nodes_one_chunk(md_files) ==
  [k \in 1..Len(md_files) |-> [doc |-> md_files[k].name, chunk |-> 1]]

index_nodes(md_files) ==
  Flatten([k \in 1..Len(md_files) |->
             [i \in 1..md_files[k].chunks |-> [doc |-> md_files[k].name, chunk |-> i]]])

Init ==
  /\ storage_root \in BOOLEAN
  /\ storage \in
       IF storage_root
       THEN {[c \in CategorySet |->
                IF c \in layout
                THEN [exists |-> TRUE, complete |-> TRUE,
                      chunks |-> index_nodes(sorted({Doc(1, 2)}))]
                ELSE NoIndex] : layout \in StorageLayouts}
       ELSE {[c \in CategorySet |-> NoIndex]}
  /\ data_dir = [c \in CategorySet |-> {}]
  /\ build_pc = 0
  /\ build_one_pc = NotBuilding
  /\ server = "down"
  /\ load_pc = NotLoading
  /\ retrievers = {}
  /\ reranker \in BOOLEAN
  /\ user_data = [u \in Users |-> Unset]
  /\ feedback_log = <<>>
  /\ hs = [u \in Users |-> Idle]

(* the dispatcher hands an update of user u to its handler *)
CanDispatch(conc, u) == server = "running" /\ ~Running(u) /\ (conc \/ \A v \in Users : ~Running(v))

Dispatched(conc, u, h) == [v \in Users |-> IF v = u THEN h ELSE IF conc THEN hs[v] ELSE Idle]

(* ---------------------------------------------------------------------- *)
(* Start of the bot process: load_retrievers()                             *)
(* ---------------------------------------------------------------------- *)
(* if not PERSIST_ROOT.exists(): raise RuntimeError(...) *)
load_retrievers_begin ==
  /\ server = "down"
  /\ IF ~storage_root
     THEN server' = "fatal" /\ UNCHANGED load_pc
     ELSE server' = "loading" /\ load_pc' = [i |-> 1, at |-> "exists"]
  /\ UNCHANGED <<storage_root, storage, data_dir, build_pc, build_one_pc, retrievers,
                 reranker, user_data, feedback_log, hs>>

(* if not cat_dir.exists(): print(...); continue *)
load_retrievers_exists(i) ==
  /\ server = "loading"
  /\ load_pc = [i |-> i, at |-> "exists"]
  /\ load_pc' = IF storage[CATEGORIES[i]].exists THEN [i |-> i, at |-> "read"]
                ELSE [i |-> i + 1, at |-> "exists"]
  /\ UNCHANGED <<storage_root, storage, data_dir, build_pc, build_one_pc, server, retrievers,
                 reranker, user_data, feedback_log, hs>>

(* StorageContext.from_defaults, load_index_from_storage, as_retriever: the
   library raises when the directory or one of its files is missing *)
load_retrievers_read(i) ==
  /\ server = "loading"
  /\ load_pc = [i |-> i, at |-> "read"]
  /\ IF storage[CATEGORIES[i]].exists /\ storage[CATEGORIES[i]].complete
     THEN /\ retrievers' = retrievers \cup {CATEGORIES[i]}
          /\ load_pc' = [i |-> i + 1, at |-> "exists"]
          /\ UNCHANGED server
     ELSE /\ server' = "fatal"
          /\ retrievers' = {}
          /\ load_pc' = NotLoading
  /\ UNCHANGED <<storage_root, storage, data_dir, build_pc, build_one_pc,
                 reranker, user_data, feedback_log, hs>>

(* the loop is over; main() starts polling *)
load_retrievers_end ==
  /\ server = "loading"
  /\ load_pc = [i |-> Len(CATEGORIES) + 1, at |-> "exists"]
  /\ server' = "running"
  /\ load_pc' = NotLoading
  /\ UNCHANGED <<storage_root, storage, data_dir, build_pc, build_one_pc, retrievers,
                 reranker, user_data, feedback_log, hs>>

(* the process is stopped and started again *)
server_restart ==
  /\ server \in {"running", "fatal"}
  /\ \A u \in Users : ~Running(u)
  /\ server' = "down"
  /\ retrievers' = {}
  /\ user_data' = [u \in Users |-> Unset]
  /\ hs' = [u \in Users |-> Idle]
  /\ UNCHANGED <<storage_root, storage, data_dir, build_pc, build_one_pc, load_pc,
                 reranker, feedback_log>>

(* ---------------------------------------------------------------------- *)
(* build_index.py                                                          *)
(* ---------------------------------------------------------------------- *)
(* between two builds the markdown files of a category are added, removed
   or rewritten *)
edit_sources(c, docs) ==
  /\ build_pc = 0
  /\ data_dir[c] # docs
  /\ data_dir' = [data_dir EXCEPT ![c] = docs]
  /\ UNCHANGED <<storage_root, storage, build_pc, build_one_pc, server, load_pc, retrievers,
                 reranker, user_data, feedback_log, hs>>

(* main(): PERSIST_ROOT.mkdir(parents=True, exist_ok=True) *)
build_main_begin ==
  /\ build_pc = 0
  /\ build_pc' = 1
  /\ build_one_pc' = NotBuilding
  /\ storage_root' = TRUE
  /\ UNCHANGED <<storage, data_dir, server, load_pc, retrievers, reranker, user_data,
                 feedback_log, hs>>

(* build_one: md_files = sorted(glob); if not md_files: return *)
build_one_glob_no_return(i) ==
  /\ build_pc = i
  /\ build_one_pc.at = "glob"
  /\ build_one_pc' = [at |-> "rmtree", md_files |-> sorted(data_dir[CATEGORIES[i]])]
  /\ UNCHANGED <<storage_root, storage, data_dir, build_pc, server, load_pc, retrievers,
                 reranker, user_data, feedback_log, hs>>

build_one_glob(i) ==
  /\ build_pc = i
  /\ build_one_pc.at = "glob"
  /\ LET md_files == sorted(data_dir[CATEGORIES[i]])
     IN  IF md_files = <<>>
         THEN build_pc' = i + 1 /\ UNCHANGED build_one_pc
         ELSE build_one_pc' = [at |-> "rmtree", md_files |-> md_files] /\ UNCHANGED build_pc
  /\ UNCHANGED <<storage_root, storage, data_dir, server, load_pc, retrievers,
                 reranker, user_data, feedback_log, hs>>

(* if persist_dir.exists(): shutil.rmtree(persist_dir) *)
build_one_rmtree(i) ==
  /\ build_pc = i
  /\ build_one_pc.at = "rmtree"
  /\ storage' = [storage EXCEPT ![CATEGORIES[i]] = NoIndex]
  /\ build_one_pc' = [build_one_pc EXCEPT !.at = "index"]
  /\ UNCHANGED <<storage_root, data_dir, build_pc, server, load_pc, retrievers,
                 reranker, user_data, feedback_log, hs>>

(* load_data, get_nodes_from_documents, VectorStoreIndex(nodes): they return,
   or one of them raises and the process ends with the traceback *)
build_one_index(i) ==
  /\ build_pc = i
  /\ build_one_pc.at = "index"
  /\ \/ build_one_pc' = [build_one_pc EXCEPT !.at = "persist"] /\ UNCHANGED build_pc
     \/ build_pc' = 0 /\ build_one_pc' = NotBuilding
  /\ UNCHANGED <<storage_root, storage, data_dir, server, load_pc, retrievers,
                 reranker, user_data, feedback_log, hs>>

(* index.storage_context.persist: the directory is made and the first of
   its files written *)
build_one_persist_begin(i) ==
  /\ build_pc = i
  /\ build_one_pc.at = "persist"
  /\ storage' = [storage EXCEPT ![CATEGORIES[i]] =
                   [exists |-> TRUE, complete |-> FALSE, chunks |-> <<>>]]
  /\ build_one_pc' = [build_one_pc EXCEPT !.at = "persisting"]
  /\ UNCHANGED <<storage_root, data_dir, build_pc, server, load_pc, retrievers,
                 reranker, user_data, feedback_log, hs>>

(* persist writes the remaining files and build_one returns, or persist
   raises and the process ends with the directory partly written *)
build_one_persist_end(i) ==
  /\ build_pc = i
  /\ build_one_pc.at = "persisting"
  /\ \/ /\ storage' = [storage EXCEPT ![CATEGORIES[i]] =
                        [exists |-> TRUE, complete |-> TRUE,
                         chunks |-> index_nodes(build_one_pc.md_files)]]
        /\ build_pc' = i + 1
     \/ /\ build_pc' = 0
        /\ UNCHANGED storage
  /\ build_one_pc' = NotBuilding
  /\ UNCHANGED <<storage_root, data_dir, server, load_pc, retrievers,
                 reranker, user_data, feedback_log, hs>>

(* the loop is over and the process exits *)
build_main_end ==
  /\ build_pc = Len(CATEGORIES) + 1
  /\ build_pc' = 0
  /\ UNCHANGED <<storage_root, storage, data_dir, build_one_pc, server, load_pc, retrievers,
                 reranker, user_data, feedback_log, hs>>

(* ---------------------------------------------------------------------- *)
(* /start and /reset                                                       *)
(* ---------------------------------------------------------------------- *)
start_cmd(u) ==
  /\ CanDispatch(concurrent_updates, u)
  /\ user_data' = [user_data EXCEPT ![u] = Unset]
  /\ hs' = Dispatched(concurrent_updates, u,
                      [Idle EXCEPT !.kind = "start_cmd", !.pc = "done", !.text = MsgMenu])
  /\ UNCHANGED <<storage_root, storage, data_dir, build_pc, build_one_pc, server, load_pc,
                 retrievers, reranker, feedback_log>>

reset_cmd(u) ==
  /\ CanDispatch(concurrent_updates, u)
  /\ user_data' = [user_data EXCEPT ![u] = Unset]
  /\ hs' = Dispatched(concurrent_updates, u,
                      [Idle EXCEPT !.kind = "reset_cmd", !.pc = "done", !.text = MsgReset])
  /\ UNCHANGED <<storage_root, storage, data_dir, build_pc, build_one_pc, server, load_pc,
                 retrievers, reranker, feedback_log>>

(* ---------------------------------------------------------------------- *)
(* Category selection                                                      *)
(* ---------------------------------------------------------------------- *)
pick_category_callback_unchecked(u, data) ==
  /\ CanDispatch(concurrent_updates, u)
  /\ LET cat == split(data, "|", 1)[2]
         h0  == [Idle EXCEPT !.kind = "pick_category_callback", !.pc = "done",
                             !.data = data, !.cat = cat]
     IN  IF cat = all
         THEN /\ user_data' = [user_data EXCEPT ![u] = None]
              /\ hs' = Dispatched(concurrent_updates, u, [h0 EXCEPT !.text = MsgModeAll])
         ELSE /\ user_data' = [user_data EXCEPT ![u] = cat]
              /\ hs' = Dispatched(concurrent_updates, u, [h0 EXCEPT !.text = MsgMode(cat)])
  /\ UNCHANGED <<storage_root, storage, data_dir, build_pc, build_one_pc, server, load_pc,
                 retrievers, reranker, feedback_log>>

pick_category_callback(u, data) ==
  /\ CanDispatch(concurrent_updates, u)
  /\ LET parts == split(data, "|", 1)
         h0    == [Idle EXCEPT !.kind = "pick_category_callback", !.pc = "done", !.data = data]
     IN  IF Len(parts) # 2
         THEN /\ hs' = Dispatched(concurrent_updates, u, [h0 EXCEPT !.text = MsgUnknown])
              /\ UNCHANGED user_data
         ELSE LET cat == parts[2]
              IN  IF cat = all
                  THEN /\ user_data' = [user_data EXCEPT ![u] = None]
                       /\ hs' = Dispatched(concurrent_updates, u,
                                           [h0 EXCEPT !.cat = cat, !.text = MsgModeAll])
                  ELSE IF cat \notin retrievers
                  THEN /\ hs' = Dispatched(concurrent_updates, u,
                                           [h0 EXCEPT !.cat = cat, !.text = MsgNotIndexedPick(cat)])
                       /\ UNCHANGED user_data
                  ELSE /\ user_data' = [user_data EXCEPT ![u] = cat]
                       /\ hs' = Dispatched(concurrent_updates, u,
                                           [h0 EXCEPT !.cat = cat, !.text = MsgMode(cat)])
  /\ UNCHANGED <<storage_root, storage, data_dir, build_pc, build_one_pc, server, load_pc,
                 retrievers, reranker, feedback_log>>

(* ---------------------------------------------------------------------- *)
(* Continue / stop                                                         *)
(* ---------------------------------------------------------------------- *)
next_step_reply(data) ==
  LET parts == split(data, "|", 1)
      h0    == [Idle EXCEPT !.kind = "next_step_callback", !.pc = "done", !.data = data]
  IN  IF Len(parts) # 2 THEN [h0 EXCEPT !.text = MsgUnknown]
      ELSE IF parts[2] = <<"a", "g", "a", "i", "n">> THEN [h0 EXCEPT !.text = MsgPickNew]
      ELSE [h0 EXCEPT !.text = MsgTips]

next_step_callback_resets(u, data) ==
  /\ CanDispatch(concurrent_updates, u)
  /\ hs' = Dispatched(concurrent_updates, u, next_step_reply(data))
  /\ user_data' = [user_data EXCEPT ![u] =
                     IF next_step_reply(data).text = MsgPickNew THEN Unset ELSE @]
  /\ UNCHANGED <<storage_root, storage, data_dir, build_pc, build_one_pc, server, load_pc,
                 retrievers, reranker, feedback_log>>

next_step_callback(u, data) ==
  /\ CanDispatch(concurrent_updates, u)
  /\ hs' = Dispatched(concurrent_updates, u, next_step_reply(data))
  /\ UNCHANGED <<storage_root, storage, data_dir, build_pc, build_one_pc, server, load_pc,
                 retrievers, reranker, user_data, feedback_log>>

(* ---------------------------------------------------------------------- *)
(* Feedback                                                                *)
(* ---------------------------------------------------------------------- *)
FeedbackInFlight == Cardinality({v \in Users : hs[v].kind = "feedback_callback" /\ Running(v)})

(* up to "await q.answer()" *)
feedback_callback_begin(conc, limit, u, data) ==
  /\ CanDispatch(conc, u)
  /\ Len(DataRows(feedback_log)) + FeedbackInFlight < limit
  /\ hs' = Dispatched(conc, u, [Idle EXCEPT !.kind = "feedback_callback",
                                            !.pc = "answered_query", !.data = data])
  /\ UNCHANGED <<storage_root, storage, data_dir, build_pc, build_one_pc, server, load_pc,
                 retrievers, reranker, user_data, feedback_log>>

feedback_row(u, score, question) ==
  [kind |-> "row", user_id |-> u,
   username |-> IF username(u) # None /\ username(u) # <<>> THEN username(u) ELSE <<>>,
   score |-> score, question |-> question, timestamp |-> "now"]

append_row_overwrite(log, row) == <<Header, row>>

(* open(..., "a"); header if f.tell() == 0; writerow *)
append_row(log, row) == IF log = <<>> THEN <<Header, row>> ELSE Append(log, row)

parse_feedback_padded(data) ==
  LET parts == split(data, "|", 2) \o <<<<>>, <<>>>>
  IN  [ok |-> TRUE, score |-> parts[2], question |-> parts[3]]

(* try: _, score, question = q.data.split("|", 2)  except Exception: ... *)
parse_feedback(data) ==
  LET parts == split(data, "|", 2)
  IN  IF Len(parts) # 3 THEN [ok |-> FALSE, score |-> <<>>, question |-> <<>>]
      ELSE [ok |-> TRUE, score |-> parts[2], question |-> parts[3]]

(* from the split to the end of the handler *)
feedback_callback_finish(u) ==
  /\ hs[u].kind = "feedback_callback" /\ hs[u].pc = "answered_query"
  /\ LET p == parse_feedback(hs[u].data)
     IN  IF ~p.ok
         THEN /\ hs' = [hs EXCEPT ![u].pc = "done", ![u].text = MsgFbInvalid]
              /\ UNCHANGED feedback_log
         ELSE /\ feedback_log' = append_row(feedback_log, feedback_row(u, p.score, p.question))
              /\ hs' = [hs EXCEPT ![u].pc = "done", ![u].text = MsgFbThanks(p.score)]
  /\ UNCHANGED <<storage_root, storage, data_dir, build_pc, build_one_pc, server, load_pc,
                 retrievers, reranker, user_data>>

(* ---------------------------------------------------------------------- *)
(* Question answering                                                      *)
(* ---------------------------------------------------------------------- *)
(* up to "loading = await update.message.reply_text(...)" *)
handle_message_begin(u, q_raw) ==
  /\ CanDispatch(concurrent_updates, u)
  /\ hs' = Dispatched(concurrent_updates, u,
                      [Idle EXCEPT !.kind = "handle_message", !.pc = "started",
                                   !.data = q_raw, !.text = MsgLoading])
  /\ UNCHANGED <<storage_root, storage, data_dir, build_pc, build_one_pc, server, load_pc,
                 retrievers, reranker, user_data, feedback_log>>

(* context.user_data.get("selected_cat") *)
selected_cat(u) == IF user_data[u] = Unset THEN None ELSE user_data[u]

(* cat = cat_from_prefix if cat_from_prefix is not None else selected_cat *)
resolve_category(cat_from_prefix, selected) ==
  IF cat_from_prefix # None THEN cat_from_prefix ELSE selected

(* truth value of "cat" *)
Truthy(cat) == cat # None /\ cat # <<>>

category_missing_unchecked(cat) == FALSE

(* if cat and cat not in retrievers *)
category_missing(cat) == Truthy(cat) /\ cat \notin retrievers

(* retrievers.values(), in insertion order *)
LoadedSeq == SelectSeq(CATEGORIES, LAMBDA c : c \in retrievers)

(* outcomes of step 3: the chunks retrieved, or an exception *)
RetrieveOutcomes(cat, q) ==
  IF Truthy(cat)
  THEN {[raised |-> FALSE, nodes |-> r, calls |-> 1] : r \in RetrieveResults(cat, q)}
       \cup {[raised |-> TRUE, nodes |-> <<>>, calls |-> 1]}
  ELSE {[raised |-> FALSE,
         nodes |-> Flatten([i \in 1..Len(LoadedSeq) |-> f[LoadedSeq[i]]]),
         calls |-> Len(LoadedSeq)] :
           f \in {g \in [retrievers -> AllRetrieveResults(q)] :
                    \A c \in retrievers : g[c] \in RetrieveResults(c, q)}}
       \cup {[raised |-> TRUE, nodes |-> <<>>, calls |-> k] : k \in 1..Len(LoadedSeq)}

(* outcomes of step 4 *)
RerankOutcomes(retrieved_nodes) ==
  IF reranker /\ retrieved_nodes # <<>>
  THEN {[status |-> "ok", nodes |-> r] : r \in Reranked(retrieved_nodes)}
       \cup {[status |-> "failed", nodes |-> <<>>]}
  ELSE {[status |-> "skipped", nodes |-> <<>>]}

(* retrieved_nodes after the try/except around postprocess_nodes *)
rerank_nodes_drop(retrieved_nodes, outcome) ==
  IF outcome.status = "skipped" THEN retrieved_nodes ELSE outcome.nodes

rerank_nodes(retrieved_nodes, outcome) ==
  IF outcome.status = "ok" THEN outcome.nodes ELSE retrieved_nodes

ContextDelimiter == <<"\n", "\n", "-", "-", "-", "\n", "\n">>

build_context_untruncated(nodes) ==
  join(ContextDelimiter, [i \in 1..Len(nodes) |-> nodes[i].text])

(* "\n\n---\n\n".join(contexts[:12]) *)
build_context(nodes) ==
  join(ContextDelimiter, Take([i \in 1..Len(nodes) |-> nodes[i].text], MaxContextChunks))

(* if not context_text.strip() *)
context_is_empty(context_text) == strip(context_text) = <<>>

mode_note(cat) == IF ~Truthy(cat) THEN <<"S", "e", "m", "u", "a">> ELSE cat

(* the synchronous part: resolution, retrieval, rerank, context; it ends at
   the edit of the placeholder or at the call of the language model *)
handle_message_process(u) ==
  /\ hs[u].kind = "handle_message" /\ hs[u].pc = "started"
  /\ LET d   == detect_category_and_query(hs[u].data)
         cat == resolve_category(d.cat, selected_cat(u))
         h1  == [hs[u] EXCEPT !.cat = cat, !.q = d.q]
     IN  IF category_missing(cat)
         THEN hs' = [hs EXCEPT ![u] = [h1 EXCEPT !.pc = "done", !.text = MsgNotIndexed(cat)]]
         ELSE \E r \in RetrieveOutcomes(cat, d.q) :
                IF r.raised
                THEN hs' = [hs EXCEPT ![u] = [h1 EXCEPT !.pc = "done",
                                                       !.retrieve_calls = r.calls,
                                                       !.text = MsgError("retrieve")]]
                ELSE \E o \in RerankOutcomes(r.nodes) :
                       LET nodes        == rerank_nodes(r.nodes, o)
                           context_text == build_context(nodes)
                           h2 == [h1 EXCEPT !.retrieved = r.nodes, !.retrieve_calls = r.calls,
                                            !.rerank = o.status, !.reranked = o.nodes,
                                            !.nodes = nodes,
                                            !.context_text = context_text]
                       IN  IF context_is_empty(context_text)
                           THEN hs' = [hs EXCEPT ![u] = [h2 EXCEPT !.pc = "done",
                                                                  !.text = MsgNotFound]]
                           ELSE hs' = [hs EXCEPT ![u] =
                                         [h2 EXCEPT !.pc = "await_llm",
                                                    !.source_note = collect_sources(nodes),
                                                    !.llm_calls = @ + 1, !.llm = "pending"]]
  /\ UNCHANGED <<storage_root, storage, data_dir, build_pc, build_one_pc, server, load_pc,
                 retrievers, reranker, user_data, feedback_log>>

llm_failed_retry(h) ==
  IF h.llm_calls < 2 THEN [h EXCEPT !.llm_calls = @ + 1]
  ELSE [h EXCEPT !.pc = "done", !.llm = "failed", !.text = MsgError("llm")]

llm_failed_propagates(h) == [h EXCEPT !.pc = "done", !.llm = "failed"]

(* acomplete raised: the except clause edits the placeholder *)
llm_failed(h) == [h EXCEPT !.pc = "done", !.llm = "failed", !.text = MsgError("llm")]

(* Settings.llm.acomplete returns or raises; on return the answer replaces
   the placeholder *)
handle_message_llm_return(u) ==
  /\ hs[u].kind = "handle_message" /\ hs[u].pc = "await_llm"
  /\ \/ \E resp \in LlmResponses :
          hs' = [hs EXCEPT ![u].pc = "answered", ![u].llm = "ok",
                           ![u].text = MsgAnswer(strip(resp), hs[u].source_note,
                                                 mode_note(hs[u].cat))]
     \/ hs' = [hs EXCEPT ![u] = llm_failed(hs[u])]
  /\ UNCHANGED <<storage_root, storage, data_dir, build_pc, build_one_pc, server, load_pc,
                 retrievers, reranker, user_data, feedback_log>>

(* the five buttons of keyboard_fb *)
feedback_keyboard(q_raw) == [k \in 1..5 |-> fb_payload(<<Digits[k]>>, q_raw)]

(* the transport accepts callback_data of 1 to 64 bytes *)
keyboard_accepted(kb) ==
  \A i \in 1..Len(kb) : utf8_len(kb[i]) >= 1 /\ utf8_len(kb[i]) <= MaxCallbackData

(* except Exception as e: the placeholder, which by now shows the answer, is
   edited to the error text and the handler returns *)
reply_failed(h, e) == [h EXCEPT !.pc = "done", !.text = MsgError(e)]

(* step 5: reply_text with keyboard_fb; a rejected keyboard raises into the
   except clause, and so does a request that fails on the way *)
handle_message_send_feedback(u) ==
  /\ hs[u].kind = "handle_message" /\ hs[u].pc = "answered"
  /\ LET kb == feedback_keyboard(hs[u].data)
     IN  IF keyboard_accepted(kb)
         THEN \/ hs' = [hs EXCEPT ![u].pc = "fb_sent", ![u].fb_kb = kb]
              \/ hs' = [hs EXCEPT ![u] = reply_failed(hs[u], "reply_text")]
         ELSE hs' = [hs EXCEPT ![u] = reply_failed(hs[u], "keyboard")]
  /\ UNCHANGED <<storage_root, storage, data_dir, build_pc, build_one_pc, server, load_pc,
                 retrievers, reranker, user_data, feedback_log>>

(* step 6: reply_text with keyboard_next, still inside the try: it is
   delivered, or it raises into the same except clause *)
handle_message_send_next(u) ==
  /\ hs[u].kind = "handle_message" /\ hs[u].pc = "fb_sent"
  /\ \/ hs' = [hs EXCEPT ![u].pc = "done", ![u].next_kb = TRUE]
     \/ hs' = [hs EXCEPT ![u] = reply_failed(hs[u], "reply_text")]
  /\ UNCHANGED <<storage_root, storage, data_dir, build_pc, build_one_pc, server, load_pc,
                 retrievers, reranker, user_data, feedback_log>>

(* ---------------------------------------------------------------------- *)
(* Specifications                                                          *)
(* ---------------------------------------------------------------------- *)
Next ==
  \/ load_retrievers_begin
  \/ \E i \in 1..Len(CATEGORIES) : load_retrievers_exists(i)
  \/ \E i \in 1..Len(CATEGORIES) : load_retrievers_read(i)
  \/ load_retrievers_end
  \/ \E u \in Users : start_cmd(u)
  \/ \E u \in Users : reset_cmd(u)
  \/ \E u \in Users : \E data \in CatPayloads : pick_category_callback(u, data)
  \/ \E u \in Users : \E data \in NextPayloads : next_step_callback(u, data)
  \/ \E u \in Users : \E data \in FbPayloads : feedback_callback_begin(concurrent_updates, MaxLog, u, data)
  \/ \E u \in Users : feedback_callback_finish(u)
  \/ \E u \in Users : \E q_raw \in Questions : handle_message_begin(u, q_raw)
  \/ \E u \in Users : handle_message_process(u)
  \/ \E u \in Users : handle_message_llm_return(u)
  \/ \E u \in Users : handle_message_send_feedback(u)
  \/ \E u \in Users : handle_message_send_next(u)

Spec == Init /\ [][Next]_vars

(* feedback submissions alone, dispatched concurrently *)
NextFeedback ==
  \/ load_retrievers_begin
  \/ \E i \in 1..Len(CATEGORIES) : load_retrievers_exists(i)
  \/ \E i \in 1..Len(CATEGORIES) : load_retrievers_read(i)
  \/ load_retrievers_end
  \/ \E u \in Users : \E data \in FbPayloadsConcurrent : feedback_callback_begin(TRUE, MaxLogConcurrent, u, data)
  \/ \E u \in Users : feedback_callback_finish(u)

SpecFeedback == Init /\ [][NextFeedback]_vars

(* the index builder, source edits, and starts of the bot process *)
NextIndex ==
  \/ \E c \in EditedCategories : \E docs \in SourceSamples : edit_sources(c, docs)
  \/ build_main_begin
  \/ \E i \in 1..Len(CATEGORIES) : build_one_glob(i)
  \/ \E i \in 1..Len(CATEGORIES) : build_one_rmtree(i)
  \/ \E i \in 1..Len(CATEGORIES) : build_one_index(i)
  \/ \E i \in 1..Len(CATEGORIES) : build_one_persist_begin(i)
  \/ \E i \in 1..Len(CATEGORIES) : build_one_persist_end(i)
  \/ build_main_end
  \/ load_retrievers_begin
  \/ \E i \in 1..Len(CATEGORIES) : load_retrievers_exists(i)
  \/ \E i \in 1..Len(CATEGORIES) : load_retrievers_read(i)
  \/ load_retrievers_end
  \/ server_restart

SpecIndex == Init /\ [][NextIndex]_vars

(* collect_sources applied to lists of retrieved chunks *)
SourceNodes ==
  {Node(<<"x">>, f) : f \in {"f1.md", "f2.md", "f3.md", "f4.md", ""}}
    \cup {[text |-> <<"x">>, file_name |-> "", filename |-> "f5.md", id |-> "f1.md"],
          [text |-> <<"x">>, file_name |-> "", filename |-> "", id |-> "f6.md"]}

InitSources == Init /\ ~storage_root /\ ~reranker

collect_sources_call(n) ==
  /\ Len(hs[1].nodes) < MaxNodes
  /\ hs' = [hs EXCEPT ![1] = [Idle EXCEPT !.kind = "collect_sources", !.pc = "done",
                                           !.nodes = Append(hs[1].nodes, n),
                                           !.source_note = collect_sources(Append(hs[1].nodes, n))]]
  /\ UNCHANGED <<storage_root, storage, data_dir, build_pc, build_one_pc, server, load_pc,
                 retrievers, reranker,
                 user_data, feedback_log>>

NextSources == \E n \in SourceNodes : collect_sources_call(n)

SpecSources == InitSources /\ [][NextSources]_vars

(* ---------------------------------------------------------------------- *)
(* Properties                                                              *)
(* ---------------------------------------------------------------------- *)
IsCategory(c) == \E i \in 1..Len(CATEGORIES) : CATEGORIES[i] = c

Asked(u) == hs[u].kind = "handle_message" /\ hs[u].pc # "started"

(* C1: a category that is not a key of the retriever set, when picked or when
   resolved for a question, gets the "belum ter-index" message for that
   category, and the request does no retrieval and no model call. *)
C1_NotIndexedGuard ==
  \A u \in Users :
    /\ \A i \in 1..Len(CATEGORIES) :
         (/\ hs[u].kind = "pick_category_callback"
          /\ hs[u].data = CAT \o <<"|">> \o CATEGORIES[i]
          /\ CATEGORIES[i] \notin retrievers)
         => /\ hs[u].text = MsgNotIndexedPick(CATEGORIES[i])
            /\ user_data[u] # CATEGORIES[i]
    /\ (Asked(u) /\ IsCategory(hs[u].cat) /\ hs[u].cat \notin retrievers)
         => /\ hs[u].pc = "done"
            /\ hs[u].text = MsgNotIndexed(hs[u].cat)
            /\ hs[u].retrieve_calls = 0
            /\ hs[u].llm_calls = 0

C1_Witness ==
  \E u \in Users :
    /\ Asked(u)
    /\ hs[u].data = <<"T", "i", "m", ":", "a", ":", "b">>
    /\ factions \notin retrievers
    /\ hs[u].text = MsgNotIndexed(factions)

AllBlank(nodes) == \A i \in 1..Len(nodes) : \A j \in 1..Len(nodes[i].text) : nodes[i].text[j] \in Whitespace

(* C2: when retrieval returned zero chunks or only chunks with blank text,
   the reply is the fixed not-found sentence and the model is not called. *)
C2_EmptyContext ==
  \A u \in Users :
    (Asked(u) /\ hs[u].rerank # "none" /\ AllBlank(hs[u].retrieved))
      => (hs[u].llm_calls = 0 /\ hs[u].pc = "done" /\ hs[u].text = MsgNotFound)

(* the text before the first ':' of the trimmed input, trimmed and lower-cased *)
PrefixOf(raw) == lower(strip(SubSeq(raw, 1, IndexOf(raw, ":") - 1)))

AliasCategories(prefix) ==
  {ALIASES[i].cat : i \in {j \in 1..Len(ALIASES) : prefix \in Range(ALIASES[j].keys)}}

(* C3: the category is the alias's category when the text before the first
   ':' is an alias (any letter case, whatever the session selected), with the
   trimmed remainder as query; otherwise the session's category, otherwise
   all categories, with the whole trimmed text as query. *)
C3_ResolutionOrder ==
  \A u \in Users :
    Asked(u) =>
      LET raw == strip(hs[u].data)
          byAlias == IF Contains(raw, ":") THEN AliasCategories(PrefixOf(raw)) ELSE {}
      IN  IF byAlias # {}
          THEN /\ hs[u].cat \in byAlias
               /\ hs[u].q = strip(SubSeq(raw, IndexOf(raw, ":") + 1, Len(raw)))
          ELSE IF IsCategory(user_data[u])
          THEN hs[u].cat = user_data[u] /\ hs[u].q = raw
          ELSE hs[u].cat = None /\ hs[u].q = raw

C3_Witness ==
  \E u \in Users :
    /\ Asked(u)
    /\ hs[u].data = <<"\r", "M", "A", "P", "\f", ":", " ", "x", "\n">>
    /\ user_data[u] = npc
    /\ hs[u].cat = maps
    /\ hs[u].q = <<"x">>

(* the selection as the session state machine sees it *)
SessionState(sel) == IF IsCategory(sel) THEN sel ELSE None

(* C4: the session state becomes category_selected(cat) only by picking
   cat, and becomes no_category_selected only by /start, /reset or picking
   "all"; questions, feedback and continue/stop leave it unchanged. *)
C4_SelectionChanges ==
  [][\A u \in Users :
       SessionState(user_data'[u]) # SessionState(user_data[u]) =>
         IF IsCategory(user_data'[u])
         THEN /\ hs'[u].kind = "pick_category_callback"
              /\ hs'[u].data = CAT \o <<"|">> \o user_data'[u]
         ELSE \/ hs'[u].kind \in {"start_cmd", "reset_cmd"}
              \/ /\ hs'[u].kind = "pick_category_callback"
                 /\ hs'[u].data = CAT \o <<"|">> \o all]_vars

C4_Witness ==
  \E u \in Users :
    /\ hs[u].kind = "next_step_callback"
    /\ user_data[u] = maps

(* C5: after every answered question both the 1-5 feedback control carrying
   the question text and the continue/stop control are offered. *)
C5_ControlsOffered ==
  \A u \in Users :
    (hs[u].kind = "handle_message" /\ hs[u].pc = "done" /\ hs[u].llm = "ok")
      => /\ Len(hs[u].fb_kb) = 5
         /\ \A k \in 1..Len(hs[u].fb_kb) :
              hs[u].fb_kb[k] = fb \o <<"|", Digits[k], "|">> \o hs[u].data
         /\ hs[u].next_kb

IsPrefix(s, t) == Len(s) <= Len(t) /\ SubSeq(t, 1, Len(s)) = s

HeaderOnce(log) ==
  log # <<>> => (log[1].kind = "header" /\ \A i \in 2..Len(log) : log[i].kind = "row")

(* C6: under any interleaving of feedback submissions the log only grows:
   an accepted submission appends one row with its user, score and question
   text, the header is the first line and appears once, and rows already
   written stay as they are. *)
C6_AppendOnly ==
  [][/\ IsPrefix(feedback_log, feedback_log')
     /\ HeaderOnce(feedback_log')
     /\ \A u \in Users :
          (hs[u].pc = "answered_query" /\ hs'[u].text.kind = "fb_thanks")
            => /\ Len(DataRows(feedback_log')) = Len(DataRows(feedback_log)) + 1
               /\ LET row == feedback_log'[Len(feedback_log')]
                  IN  /\ row.kind = "row"
                      /\ row.user_id = u
                      /\ ~Contains(row.score, "|")
                      /\ hs[u].data = fb \o <<"|">> \o row.score \o <<"|">> \o row.question]_vars

C6_Witness ==
  /\ Len(DataRows(feedback_log)) = 2
  /\ feedback_log[2].user_id # feedback_log[3].user_id
  /\ feedback_log[2].question = <<"a", "|", "b">>
  /\ \E u \in Users : hs[u].kind = "feedback_callback" /\ Running(u)

Scores == {<<"1">>, <<"2">>, <<"3">>, <<"4">>, <<"5">>}

(* C7: every row of the feedback log has a score from 1 to 5. *)
C7_ScoreRange ==
  \A i \in 1..Len(feedback_log) :
    feedback_log[i].kind = "row" => feedback_log[i].score \in Scores

(* a payload that lacks the score field or the question field *)
Malformed(data) == Cardinality({i \in 1..Len(data) : data[i] = "|"}) < 2

(* C8: a malformed feedback payload gets the validation-error message; no
   row is appended and no selection is modified. *)
C8_MalformedFeedback ==
  [][\A u \in Users :
       (/\ hs[u].kind = "feedback_callback" /\ hs[u].pc = "answered_query"
        /\ Malformed(hs[u].data)
        /\ hs'[u] # hs[u])
       => /\ hs'[u].text = MsgFbInvalid
          /\ feedback_log' = feedback_log
          /\ user_data' = user_data]_vars

C8_Witness ==
  \E u \in Users :
    /\ hs[u].kind = "feedback_callback"
    /\ hs[u].data = fb \o <<"|", "4">>
    /\ hs[u].text = MsgFbInvalid

(* C9: a question makes at most one model call; a failed call is not
   retried, the placeholder shows the error with its detail, and no answer
   and no control is sent. *)
C9_SingleModelCall ==
  \A u \in Users :
    /\ hs[u].llm_calls <= 1
    /\ hs[u].llm = "failed"
         => /\ hs[u].pc = "done"
            /\ hs[u].llm_calls = 1
            /\ hs[u].text = MsgError("llm")
            /\ hs[u].fb_kb = <<>>
            /\ ~hs[u].next_kb

C9_Witness ==
  \E u \in Users : hs[u].kind = "handle_message" /\ hs[u].llm = "failed"

(* C10: when the reranker is unavailable or raises, the request goes on with
   the retrieved chunks in retrieval order, to the not-found reply or to the
   model call, and the reranker stays as it was. *)
C10_RerankFallback ==
  /\ [](\A u \in Users :
          (Asked(u) /\ hs[u].rerank \in {"failed", "skipped"})
            => /\ hs[u].nodes = hs[u].retrieved
               /\ hs[u].context_text =
                    join(ContextDelimiter,
                         [i \in 1..(IF Len(hs[u].retrieved) < 12 THEN Len(hs[u].retrieved) ELSE 12)
                            |-> hs[u].retrieved[i].text])
               /\ \/ hs[u].llm_calls = 1
                  \/ hs[u].pc = "done" /\ hs[u].text = MsgNotFound)
  /\ [][reranker' = reranker]_vars

C10_Witness ==
  \E u \in Users :
    /\ reranker
    /\ Asked(u)
    /\ hs[u].rerank = "failed"
    /\ Len(hs[u].retrieved) > 12
    /\ hs[u].llm = "ok"

(* C11: while a question of one user waits for the model or the transport,
   a handler for another user can start. *)
C11_OtherUsersProceed ==
  \A a \in Users : \A b \in Users \ {a} :
    (hs[a].kind = "handle_message" /\ Running(a)) => ENABLED reset_cmd(b)

(* the filename a chunk carries, "" when it carries none *)
FileOf(n) == IF n.file_name # "" THEN n.file_name ELSE IF n.filename # "" THEN n.filename ELSE n.id

FirstSeen(nodes, f) == CHOOSE i \in 1..Len(nodes) : FileOf(nodes[i]) = f /\ \A j \in 1..(i - 1) : FileOf(nodes[j]) # f

DistinctFiles(nodes) == {FileOf(nodes[i]) : i \in 1..Len(nodes)} \ {""}

(* C12: the source note lists every filename at most once, in first-seen
   order, at most max_files of them, and is "dataset" when no chunk carries
   a filename. *)
C12_SourceNote ==
  hs[1].kind = "collect_sources" =>
    LET nodes == hs[1].nodes
        note  == hs[1].source_note
        files == DistinctFiles(nodes)
    IN  IF files = {} THEN note = <<"dataset">>
        ELSE /\ Len(note) = (IF Cardinality(files) < 5 THEN Cardinality(files) ELSE 5)
             /\ \A k \in 1..Len(note) : note[k] \in files
             /\ \A k \in 1..Len(note) : \A l \in 1..Len(note) :
                  k < l => FirstSeen(nodes, note[k]) < FirstSeen(nodes, note[l])
             /\ \A f \in files :
                  FirstSeen(nodes, f) < FirstSeen(nodes, note[Len(note)]) => f \in Range(note)

C12_Witness ==
  /\ hs[1].kind = "collect_sources"
  /\ Cardinality(DistinctFiles(hs[1].nodes)) = 6
  /\ Len(hs[1].source_note) = 5
  /\ hs[1].source_note[1] = "f6.md"

(* C13: a category without source documents is skipped: the build goes on to
   the next category and the category's persisted index stays as it was; a
   build changes persisted state only of categories that have documents. *)
C13_SkipEmpty ==
  [][/\ \A c \in CategorySet : storage'[c] # storage[c] => data_dir[c] # {}
     /\ \A i \in 1..Len(CATEGORIES) :
          (/\ build_pc = i /\ build_one_pc.at = "glob"
           /\ <<build_pc, build_one_pc>>' # <<build_pc, build_one_pc>>
           /\ data_dir[CATEGORIES[i]] = {})
            => build_pc' = i + 1 /\ storage' = storage /\ storage_root' = storage_root]_vars

C13_Witness ==
  /\ build_pc = 5
  /\ data_dir[maps] = {}
  /\ storage[maps].exists
  /\ storage[maps].chunks # <<>>

ChunksOf(docs) == UNION {{[doc |-> d.name, chunk |-> i] : i \in 1..d.chunks} : d \in docs}

(* C14: for a category with documents a completed build_one leaves exactly
   the chunks of the current documents, each once, whatever was persisted
   before. *)
C14_RebuildReplaces ==
  [][\A i \in 1..Len(CATEGORIES) :
       (build_pc = i /\ build_pc' = i + 1 /\ data_dir[CATEGORIES[i]] # {})
         => LET idx == storage'[CATEGORIES[i]]
            IN  /\ idx.exists /\ idx.complete
                /\ Range(idx.chunks) = ChunksOf(data_dir[CATEGORIES[i]])
                /\ Len(idx.chunks) = Cardinality(ChunksOf(data_dir[CATEGORIES[i]]))]_vars

C14_Witness ==
  /\ build_pc = 5
  /\ data_dir[maps] = {Doc(1, 1), Doc(2, 2)}
  /\ Len(storage[maps].chunks) = 3
  /\ data_dir[npc] = {Doc(1, 1), Doc(2, 2)}
  /\ Len(storage[npc].chunks) = 2

(* C15: at startup load_retrievers is fatal when the index root is absent;
   when the root is present it does not fail, and the bot runs with exactly
   the configured categories whose directory exists. *)
C15_Startup ==
  [][/\ (server = "down" /\ server' = "fatal") => ~storage_root
     /\ server = "loading" => server' # "fatal"
     /\ (server = "loading" /\ server' = "running")
          => retrievers' = {c \in CategorySet : storage[c].exists}]_vars

(* C16: an error raised while a question is processed is shown as the
   text of the placeholder, and a finished request shows an answer, the
   not-found sentence, the not-indexed message or an error. *)
C16_ErrorsOnPlaceholder ==
  \A u \in Users :
    hs[u].kind = "handle_message" =>
      /\ hs[u].pc = "done" => hs[u].text.kind \in {"answer", "not_found", "not_indexed", "error"}
      /\ (hs[u].pc = "done" /\ hs[u].retrieve_calls > 0 /\ hs[u].rerank = "none")
           => hs[u].text = MsgError("retrieve")
      /\ hs[u].llm = "failed" => hs[u].text = MsgError("llm")
      /\ (hs[u].pc = "done" /\ hs[u].llm = "ok" /\ utf8_len(fb_payload(<<"1">>, hs[u].data)) > MaxCallbackData)
           => hs[u].text = MsgError("keyboard")
      /\ hs[u].text.kind = "answer" => hs[u].llm = "ok"

C16_Witness ==
  \E u \in Users :
    /\ hs[u].kind = "handle_message"
    /\ hs[u].pc = "done"
    /\ hs[u].retrieve_calls > 0
    /\ hs[u].text = MsgError("retrieve")

CountIn(s, x) == Cardinality({i \in 1..Len(s) : s[i] = x})

(* r holds n of the chunks of nodes, or all of them when they are fewer, each
   at most as often as nodes holds it *)
IsSelection(r, nodes, n) ==
  /\ Len(r) = (IF Len(nodes) < n THEN Len(nodes) ELSE n)
  /\ \A i \in 1..Len(r) : CountIn(r, r[i]) <= CountIn(nodes, r[i])

RECURSIVE ContextOfFirst(_, _)
ContextOfFirst(chunks, k) ==
  IF k = 0 THEN <<>>
  ELSE IF k = 1 THEN chunks[1].text
  ELSE ContextOfFirst(chunks, k - 1) \o ContextDelimiter \o chunks[k].text

(* C17: the context block is the texts of the first 12 (or fewer) chunks,
   in rerank order when reranking succeeded and in retrieval order
   otherwise, joined by the delimiter. *)
C17_ContextFirstTwelve ==
  \A u \in Users :
    (Asked(u) /\ hs[u].rerank # "none") =>
      LET chunks == hs[u].nodes
          k      == IF Len(chunks) < 12 THEN Len(chunks) ELSE 12
      IN  /\ IF hs[u].rerank = "ok"
             THEN /\ chunks = hs[u].reranked
                  /\ IsSelection(chunks, hs[u].retrieved, rerank_top_n)
             ELSE chunks = hs[u].retrieved
          /\ hs[u].context_text = ContextOfFirst(chunks, k)

C17_Witness ==
  \E u \in Users :
    /\ Asked(u)
    /\ hs[u].rerank = "ok"
    /\ Len(hs[u].retrieved) = 13
    /\ hs[u].nodes[1] = hs[u].retrieved[13]
    /\ hs[u].nodes # Take(hs[u].retrieved, rerank_top_n)
    /\ hs[u].pc = "await_llm"

(* C18: a selected category is always a key of the retriever set, handlers
   never change the retriever set, and the not-indexed reply to a question
   comes only from an alias prefix. *)
C18_SelectionIndexed ==
  /\ [](\A u \in Users :
          /\ IsCategory(user_data[u]) => user_data[u] \in retrievers
          /\ user_data[u] \in {Unset, None} \/ IsCategory(user_data[u])
          /\ (Asked(u) /\ hs[u].text.kind = "not_indexed")
               => /\ Contains(strip(hs[u].data), ":")
                  /\ hs[u].text.arg \in AliasCategories(PrefixOf(strip(hs[u].data))))
  /\ [][server = "running" => retrievers' = retrievers]_vars

C18_Witness ==
  \E u \in Users :
    /\ Asked(u)
    /\ user_data[u] = maps
    /\ hs[u].text = MsgNotIndexed(factions)

(* C19: once the answer is on the placeholder, no later step of the run
   replaces it. *)
C19_AnswerStays ==
  [][\A u \in Users :
       (hs[u].kind = "handle_message" /\ Running(u) /\ hs[u].text.kind = "answer")
         => hs'[u].text = hs[u].text]_vars

(* C20 as stated: every filename of the source note belongs to a chunk
   whose text is in the context block. *)
C20_SourcesInContext ==
  \A u \in Users :
    (Asked(u) /\ hs[u].llm # "none" /\ hs[u].source_note # <<"dataset">>) =>
      \A k \in 1..Len(hs[u].source_note) :
        \E i \in 1..Len(hs[u].nodes) :
          i <= 12 /\ FileOf(hs[u].nodes[i]) = hs[u].source_note[k]

(* C20 amended: every filename of the source note belongs to one of the
   retrieved chunks (after reranking), possibly one beyond the first 12. *)
C20_SourcesFromRetrieved ==
  \A u \in Users :
    (Asked(u) /\ hs[u].llm # "none") =>
      IF DistinctFiles(hs[u].nodes) = {} THEN hs[u].source_note = <<"dataset">>
      ELSE \A k \in 1..Len(hs[u].source_note) :
             hs[u].source_note[k] \in DistinctFiles(hs[u].nodes)

C20_Witness ==
  \E u \in Users :
    /\ Asked(u)
    /\ hs[u].llm = "ok"
    /\ Len(hs[u].nodes) = 13
    /\ \E k \in 1..Len(hs[u].source_note) : hs[u].source_note[k] = "n2.md"
    /\ \A i \in 1..12 : FileOf(hs[u].nodes[i]) # "n2.md"

====
